---- MODULE Spec2Model ----
(***************************************************************************)
(* Question-and-answer service: the vote ledger of questions and answers,  *)
(* the acceptance workflow, answer creation / soft delete and the          *)
(* notifications they emit, as implemented by the request handlers in      *)
(* server/routes/questions.js and server/routes/answers.js over the        *)
(* Question and Answer schemas.                                            *)
(*                                                                         *)
(* The persistent store is the variables questions, answers and            *)
(* notifications.  A handler fetches documents, mutates the in-memory      *)
(* copies and persists them with save().  save() is the document mapper's   *)
(* save: it writes the paths that were modified on that in-memory copy     *)
(* (an assignment of the value a path already holds modifies nothing).      *)
(* For an array path it sends what was done to the array: a push is sent   *)
(* as a push onto the stored array; a splice is sent as the whole array    *)
(* and only to the document version (__v) that was fetched, otherwise the  *)
(* save throws.  Every save that changes an array raises the version.      *)
(***************************************************************************)
EXTENDS Integers, Sequences, FiniteSets, TLC

VARIABLES
    questions,      \* Question collection: id -> document
    answers,        \* Answer collection: sequence of documents, index = _id
    notifications,  \* Notification collection, in creation order
    clock,          \* source of new Date()
    last,           \* the request handled last and the response it got
    inflight,       \* requests between their fetch and their last persist (a set)
    users           \* User collection: id -> username

vars == <<questions, answers, notifications, clock, last, inflight, users>>

Null == "null"
NoAnswer == 0       \* acceptedAnswer: null (answer ids count from 1)
NoDate == 0         \* acceptedAt: null (dates count from 1)

Users == {"u1", "u2", "u3"}
QuestionIds == {"q1", "q2"}
VoteTypes == {"upvote", "downvote"}

\* The username each user registered with.
Usernames == [id \in Users |-> CASE id = "u1" -> "alice"
                                 [] id = "u2" -> "bob"
                                 [] OTHER -> "carol"]

\* Bounds of the model.
MaxAnswers == 2
MaxNotifications == 2
MaxClock == 2
MaxRequests == 2    \* requests in flight at a time

-----------------------------------------------------------------------------
(* Array helpers, as the handlers use them (0-based indexes, -1 = absent). *)

\* Array.prototype.findIndex(vote => vote.user.toString() === userId.toString())
FindIndex(arr, userId) ==
    IF \E i \in 1..Len(arr) : arr[i] = userId
    THEN (CHOOSE i \in 1..Len(arr) :
            /\ arr[i] = userId
            /\ \A j \in 1..(i - 1) : arr[j] # userId) - 1
    ELSE -1

\* Array.prototype.splice(index, 1)
Splice(arr, index) ==
    [i \in 1..(Len(arr) - 1) |-> IF i <= index THEN arr[i] ELSE arr[i + 1]]

\* Array.prototype.push(x)
Push(arr, x) == Append(arr, x)

\* Range of an array, and absence of duplicates.
Elems(arr) == {arr[i] : i \in 1..Len(arr)}
NoDuplicates(arr) == \A i, j \in 1..Len(arr) : arr[i] = arr[j] => i = j

-----------------------------------------------------------------------------
(* Documents.                                                              *)

NoVotes == [upvotes |-> <<>>, downvotes |-> <<>>]

\* new Question({author}) with the schema defaults
NewQuestion(author) ==
    [author |-> author, isActive |-> TRUE, isClosed |-> FALSE, views |-> 0,
     tags |-> <<>>, votes |-> NoVotes, answers |-> <<>>,
     acceptedAnswer |-> NoAnswer]

\* new Answer({content, author, question}) with the schema defaults
NewAnswer(author, questionId) ==
    [author |-> author, question |-> questionId, isActive |-> TRUE,
     isAccepted |-> FALSE, acceptedAt |-> NoDate, votes |-> NoVotes]

\* virtual('voteScore')
VoteScore(doc) == Len(doc.votes.upvotes) - Len(doc.votes.downvotes)

\* Question.findById / Answer.findById
QuestionExists(id) == id \in DOMAIN questions
AnswerExists(id) == id \in DOMAIN answers

-----------------------------------------------------------------------------
(* POST /:id/vote, the toggle on the two voter arrays.                     *)

\* A vote handler with the bug of leaving the opposite array alone.
ApplyVoteKeepOpposite(votes, userId, voteType) ==
    LET upvoteIndex == FindIndex(votes.upvotes, userId)
        downvoteIndex == FindIndex(votes.downvotes, userId)
    IN  IF voteType = "upvote"
        THEN [votes EXCEPT !.upvotes =
                IF upvoteIndex > -1 THEN Splice(@, upvoteIndex) ELSE Push(@, userId)]
        ELSE [votes EXCEPT !.downvotes =
                IF downvoteIndex > -1 THEN Splice(@, downvoteIndex) ELSE Push(@, userId)]

\* A vote handler that sets the requested vote instead of toggling it.
ApplyVoteNoRetract(votes, userId, voteType) ==
    LET upvoteIndex == FindIndex(votes.upvotes, userId)
        downvoteIndex == FindIndex(votes.downvotes, userId)
        ups == IF upvoteIndex > -1
               THEN Splice(votes.upvotes, upvoteIndex) ELSE votes.upvotes
        downs == IF downvoteIndex > -1
                 THEN Splice(votes.downvotes, downvoteIndex) ELSE votes.downvotes
    IN  IF voteType = "upvote"
        THEN [upvotes |-> Push(ups, userId), downvotes |-> downs]
        ELSE [upvotes |-> ups, downvotes |-> Push(downs, userId)]

ApplyVote(votes, userId, voteType) ==
    LET upvoteIndex == FindIndex(votes.upvotes, userId)
        downvoteIndex == FindIndex(votes.downvotes, userId)
        \* Remove existing votes
        ups == IF upvoteIndex > -1
               THEN Splice(votes.upvotes, upvoteIndex) ELSE votes.upvotes
        downs == IF downvoteIndex > -1
                 THEN Splice(votes.downvotes, downvoteIndex) ELSE votes.downvotes
    IN  \* Add new vote if it's different from the removed one
        IF voteType = "upvote" /\ upvoteIndex = -1
        THEN [upvotes |-> Push(ups, userId), downvotes |-> downs]
        ELSE IF voteType = "downvote" /\ downvoteIndex = -1
        THEN [upvotes |-> ups, downvotes |-> Push(downs, userId)]
        ELSE [upvotes |-> ups, downvotes |-> downs]

-----------------------------------------------------------------------------
(* Requests and responses.                                                 *)

Admins == {"u3"}                      \* req.user.role === 'admin'
MissingQuestion == "q0"               \* a well-formed id no question has
QuestionRefs == QuestionIds \cup {MissingQuestion}
AnswerRefs == 1..MaxAnswers           \* ids beyond Len(answers) are missing
VoteInputs == VoteTypes \cup {"sideways"}

\* The vote state of a user in a ledger.
Membership(votes, userId) ==
    LET up == userId \in Elems(votes.upvotes)
        down == userId \in Elems(votes.downvotes)
    IN  IF up /\ down THEN "both"
        ELSE IF up THEN "up" ELSE IF down THEN "down" ELSE "none"

\* The fields a response body can carry besides the message.
NoBody ==
    [voteScore |-> 0, upvotes |-> 0, downvotes |-> 0, views |-> 0,
     answer |-> NoAnswer, isAccepted |-> FALSE, acceptedAt |-> NoDate,
     questions |-> <<>>, total |-> 0,
     notification |-> 0, isRead |-> FALSE, readAt |-> NoDate, modifiedCount |-> 0]

\* res.status(status).json({message}): the response of request op.  The
\* request itself (actor, question or answer id, arg) is kept only with the
\* response to a recorded vote or an accepted answer, together with what
\* the vote found in the ledger (prior, scoreBefore).
Response(op, status, message) ==
    [op |-> op, status |-> status, message |-> message,
     actor |-> Null, question |-> Null, answer |-> NoAnswer, arg |-> Null,
     prior |-> Null, scoreBefore |-> 0, body |-> NoBody]

\* res.json({message, voteScore, upvotes, downvotes}) of a recorded vote;
\* the numbers are those of the in-memory document that was saved.
VoteResponse(op, actor, voteType, before, after) ==
    [Response(op, 200, "Vote recorded successfully")
        EXCEPT !.actor = actor, !.arg = voteType,
               !.prior = Membership(before.votes, actor),
               !.scoreBefore = VoteScore(before),
               !.body = [NoBody EXCEPT !.voteScore = VoteScore(after),
                                       !.upvotes = Len(after.votes.upvotes),
                                       !.downvotes = Len(after.votes.downvotes)]]

NoRequest == Response("none", 0, Null)

-----------------------------------------------------------------------------
(* POST /api/questions/:id/vote and POST /api/answers/:id/vote: the checks *)
(* before the toggle.  found = the document exists; doc = the document.    *)

SelfVoteMessage(kind) ==
    IF kind = "Question" THEN "Cannot vote on your own question"
    ELSE "Cannot vote on your own answer"

\* A vote check that lets the author through.
VoteCheckNoSelf(kind, found, doc, actor, voteType) ==
    IF voteType \notin VoteTypes
    THEN [status |-> 400, message |-> "Validation failed"]
    ELSE IF ~found \/ ~doc.isActive
    THEN [status |-> 404, message |-> kind \o " not found"]
    ELSE [status |-> 200, message |-> "Vote recorded successfully"]

\* A vote check that ignores the soft-delete flag.
VoteCheckNoActive(kind, found, doc, actor, voteType) ==
    IF voteType \notin VoteTypes
    THEN [status |-> 400, message |-> "Validation failed"]
    ELSE IF ~found
    THEN [status |-> 404, message |-> kind \o " not found"]
    ELSE IF doc.author = actor
    THEN [status |-> 400, message |-> SelfVoteMessage(kind)]
    ELSE [status |-> 200, message |-> "Vote recorded successfully"]

VoteCheck(kind, found, doc, actor, voteType) ==
    IF voteType \notin VoteTypes
    THEN [status |-> 400, message |-> "Validation failed"]
    ELSE IF ~found \/ ~doc.isActive
    THEN [status |-> 404, message |-> kind \o " not found"]
    ELSE IF doc.author = actor
    THEN [status |-> 400, message |-> SelfVoteMessage(kind)]
    ELSE [status |-> 200, message |-> "Vote recorded successfully"]

\* (handled in one step, also while other requests are between their fetch
\* and their save)
VoteQuestion(actor, id, voteType) ==
    /\ LET found == QuestionExists(id)
           check == VoteCheck("Question", found,
                              IF found THEN questions[id] ELSE Null, actor, voteType)
       IN  IF check.status # 200
           THEN /\ last' = Response("vote_question", check.status, check.message)
                /\ UNCHANGED questions
           ELSE LET question == [questions[id] EXCEPT
                                    !.votes = ApplyVote(@, actor, voteType)]
                IN  /\ questions' = [questions EXCEPT ![id] = question]
                    /\ last' = [VoteResponse("vote_question", actor, voteType,
                                             questions[id], question)
                                   EXCEPT !.question = id]
    /\ UNCHANGED <<answers, notifications, clock, inflight, users>>

VoteAnswer(actor, id, voteType) ==
    /\ inflight = {}
    /\ LET found == AnswerExists(id)
           check == VoteCheck("Answer", found,
                              IF found THEN answers[id] ELSE Null, actor, voteType)
       IN  IF check.status # 200
           THEN /\ last' = Response("vote_answer", check.status, check.message)
                /\ UNCHANGED answers
           ELSE LET answer == [answers[id] EXCEPT
                                  !.votes = ApplyVote(@, actor, voteType)]
                IN  /\ answers' = [answers EXCEPT ![id] = answer]
                    /\ last' = [VoteResponse("vote_answer", actor, voteType,
                                             answers[id], answer)
                                   EXCEPT !.answer = id]
    /\ UNCHANGED <<questions, notifications, clock, inflight, users>>

-----------------------------------------------------------------------------
(* DELETE /api/answers/:id (soft delete)                                   *)

\* A $pull that removes nothing.
PullNone(arr, x) == arr

\* A $pull that removes the oldest entry instead of the given one.
PullOldest(arr, x) == IF arr = <<>> THEN arr ELSE Tail(arr)

\* $pull: { answers: answer._id }
Pull(arr, x) == SelectSeq(arr, LAMBDA y : y # x)

\* A delete without the author-or-admin check.
DeleteAnswerAnyActor(actor, id) ==
    /\ inflight = {}
    /\ IF ~AnswerExists(id)
       THEN /\ last' = Response("delete_answer", 404, "Answer not found")
            /\ UNCHANGED <<questions, answers>>
       ELSE /\ answers' = [answers EXCEPT ![id].isActive = FALSE]
            /\ questions' =
                 IF QuestionExists(answers[id].question)
                 THEN [questions EXCEPT ![answers[id].question].answers = Pull(@, id)]
                 ELSE questions
            /\ last' = [Response("delete_answer", 200, "Answer deleted successfully")
                           EXCEPT !.answer = id]
    /\ UNCHANGED <<notifications, clock, inflight, users>>

DeleteAnswer(actor, id) ==
    /\ inflight = {}
    /\ IF ~AnswerExists(id)
       THEN /\ last' = Response("delete_answer", 404, "Answer not found")
            /\ UNCHANGED <<questions, answers>>
       ELSE IF answers[id].author # actor /\ actor \notin Admins
       THEN /\ last' = Response("delete_answer", 403,
                                "Not authorized to delete this answer")
            /\ UNCHANGED <<questions, answers>>
       ELSE /\ answers' = [answers EXCEPT ![id].isActive = FALSE]
            /\ questions' =
                 IF QuestionExists(answers[id].question)
                 THEN [questions EXCEPT ![answers[id].question].answers = Pull(@, id)]
                 ELSE questions
            /\ last' = [Response("delete_answer", 200, "Answer deleted successfully")
                           EXCEPT !.answer = id]
    /\ UNCHANGED <<notifications, clock, inflight, users>>

-----------------------------------------------------------------------------
(* Lifecycle flags of a question, set by handlers outside these routes.    *)

DeactivateQuestion(id) ==
    /\ inflight = {}
    /\ QuestionExists(id) /\ questions[id].isActive
    /\ questions' = [questions EXCEPT ![id].isActive = FALSE]
    /\ last' = Response("deactivate_question", 200, Null)
    /\ UNCHANGED <<answers, notifications, clock, inflight, users>>

CloseQuestion(id) ==
    /\ inflight = {}
    /\ QuestionExists(id) /\ ~questions[id].isClosed
    /\ questions' = [questions EXCEPT ![id].isClosed = TRUE]
    /\ last' = Response("close_question", 200, Null)
    /\ UNCHANGED <<answers, notifications, clock, inflight, users>>

-----------------------------------------------------------------------------
(* Notifications.                                                          *)

MinAnswerLength == 10                 \* body('content').isLength({ min: 10 })
ContentLengths == {MinAnswerLength - 1, MinAnswerLength}

\* new Notification({recipient, sender, type, relatedQuestion, relatedAnswer})
NewNotification(recipient, sender, type, questionId, answerId) ==
    [recipient |-> recipient, sender |-> sender, type |-> type,
     relatedQuestion |-> questionId, relatedAnswer |-> answerId,
     isRead |-> FALSE, readAt |-> NoDate]

-----------------------------------------------------------------------------
(* POST /api/answers                                                       *)

MalformedId == "not-an-id"            \* a questionId that is no ObjectId
IsMongoId(id) == id # MalformedId     \* body('questionId').isMongoId()

CreateMessage(status) ==
    CASE status = 400 -> "Validation failed"
      [] status = 404 -> "Question not found"
      [] status = 500 -> "Server error"
      [] OTHER -> "Answer created successfully"

\* A create check that ignores the soft-delete flag of the question.
CreateCheckNoActive(questionId, contentLength) ==
    IF contentLength < MinAnswerLength \/ ~IsMongoId(questionId) THEN 400
    ELSE IF ~QuestionExists(questionId) THEN 404
    ELSE 201

\* A create check that does not look at the content.
CreateCheckAnyContent(questionId, contentLength) ==
    IF ~IsMongoId(questionId) THEN 400
    ELSE IF ~QuestionExists(questionId) \/ ~questions[questionId].isActive THEN 404
    ELSE 201

\* The status the checks before the first persist answer with; 201 = pass.
CreateCheck(questionId, contentLength) ==
    IF contentLength < MinAnswerLength \/ ~IsMongoId(questionId) THEN 400
    \* Check if question exists and is active
    ELSE IF ~QuestionExists(questionId) \/ ~questions[questionId].isActive THEN 404
    ELSE 201

\* A creation that notifies the question's author whoever the answerer is.
CreateNotificationsAlways(store, question, actor, questionId, answerId) ==
    Push(store, NewNotification(question.author, actor, "answer", questionId, answerId))

\* Create notification for question author (if not answering own question)
CreateNotifications(store, question, actor, questionId, answerId) ==
    IF question.author # actor
    THEN Push(store, NewNotification(question.author, actor, "answer",
                                     questionId, answerId))
    ELSE store

\* Room for what a passing creation creates.
CreateFits(actor, questionId) ==
    /\ Len(answers) < MaxAnswers
    /\ questions[questionId].author # actor => Len(notifications) < MaxNotifications

CreateAnswer(actor, questionId, contentLength) ==
    /\ inflight = {}
    /\ LET status == CreateCheck(questionId, contentLength)
       IN  IF status # 201
           THEN /\ last' = Response("create_answer", status, CreateMessage(status))
                /\ UNCHANGED <<questions, answers, notifications>>
           ELSE LET answerId == Len(answers) + 1
                IN  /\ CreateFits(actor, questionId)
                    /\ answers' = Push(answers, NewAnswer(actor, questionId))
                    \* Add answer to question's answers array
                    /\ questions' = [questions EXCEPT ![questionId].answers = Push(@, answerId)]
                    /\ notifications' =
                         CreateNotifications(notifications, questions[questionId],
                                             actor, questionId, answerId)
                    /\ last' = [Response("create_answer", 201, CreateMessage(201))
                                   EXCEPT !.body = [NoBody EXCEPT !.answer = answerId]]
    /\ UNCHANGED <<clock, inflight, users>>

\* The same request when notification.save() rejects: the answer and the
\* question's answers array are persisted, the rejection is caught by the
\* handler's catch block.
CreateAnswerNotifyFails(actor, questionId, contentLength) ==
    /\ inflight = {}
    /\ CreateCheck(questionId, contentLength) = 201
    /\ questions[questionId].author # actor
    /\ CreateFits(actor, questionId)
    /\ answers' = Push(answers, NewAnswer(actor, questionId))
    /\ questions' = [questions EXCEPT ![questionId].answers = Push(@, Len(answers) + 1)]
    /\ last' = Response("create_answer", 500, CreateMessage(500))
    /\ UNCHANGED <<notifications, clock, inflight, users>>

-----------------------------------------------------------------------------
(* POST /api/answers/:id/accept                                            *)
(* The handler holds the fetched answer and its populated question in      *)
(* memory and persists three documents one after the other.                *)

\* Answer.findById(req.params.id).populate('question')
Fetched(actor, id) ==
    [actor |-> actor, id |-> id, answer |-> answers[id],
     question |-> questions[answers[id].question],
     step |-> "unaccept", now |-> NoDate]

AcceptMessage(status) ==
    CASE status = 404 -> "Answer not found"
      [] status = 403 -> "Only the question author can accept answers"
      [] status = 400 -> "Cannot accept answers on a closed question"
      [] OTHER -> "Answer accepted successfully"

\* An accept check without the author check.
AcceptCheckAnyActor(actor, id) ==
    IF ~AnswerExists(id) \/ ~answers[id].isActive THEN 404
    ELSE IF questions[answers[id].question].isClosed THEN 400
    ELSE 200

\* An accept check without the closed check.
AcceptCheckClosedToo(actor, id) ==
    IF ~AnswerExists(id) \/ ~answers[id].isActive THEN 404
    ELSE IF questions[answers[id].question].author # actor THEN 403
    ELSE 200

\* An accept check that ignores the soft-delete flag.
AcceptCheckDeletedToo(actor, id) ==
    IF ~AnswerExists(id) THEN 404
    ELSE IF questions[answers[id].question].author # actor THEN 403
    ELSE IF questions[answers[id].question].isClosed THEN 400
    ELSE 200

\* The status the checks before the first mutation answer with; 200 = pass.
AcceptCheck(actor, id) ==
    IF ~AnswerExists(id) \/ ~answers[id].isActive THEN 404
    ELSE IF questions[answers[id].question].author # actor THEN 403
    ELSE IF questions[answers[id].question].isClosed THEN 400
    ELSE 200

\* An accept that forgets the previous answer.
UnacceptPreviousSkipped(store, req) == store

\* An accept that looks the previous answer up among the active answers.
UnacceptPreviousActiveOnly(store, req) ==
    LET previous == req.question.acceptedAnswer
    IN  IF previous # NoAnswer /\ previous \in DOMAIN store /\ store[previous].isActive
        THEN [store EXCEPT ![previous].isAccepted = FALSE,
                           ![previous].acceptedAt = NoDate]
        ELSE store

\* Unaccept previous answer if exists: a fresh findById, two assignments, save()
UnacceptPrevious(store, req) ==
    LET previous == req.question.acceptedAnswer
    IN  IF previous # NoAnswer /\ previous \in DOMAIN store
        THEN [store EXCEPT ![previous].isAccepted = FALSE,
                           ![previous].acceptedAt = NoDate]
        ELSE store

\* Accept the new answer: two assignments on the answer fetched at the start
\* of the request, save().  isAccepted is written when the assignment changed
\* the fetched value; acceptedAt, a new Date, always is.
AcceptNew(store, req, now) ==
    [store EXCEPT ![req.id].isAccepted =
                      IF req.answer.isAccepted = TRUE THEN @ ELSE TRUE,
                  ![req.id].acceptedAt = now]

\* Update question: one assignment on the populated question, save()
UpdateQuestion(store, req) ==
    IF req.question.acceptedAnswer = req.id
    THEN store
    ELSE [store EXCEPT ![req.answer.question].acceptedAnswer = req.id]

\* An accept that notifies the answer's author whoever the actor is.
AcceptNotificationsAlways(store, req) ==
    Push(store, NewNotification(req.answer.author, req.actor, "accepted_answer",
                                req.answer.question, req.id))

\* Create notification for answer author (if not accepting own answer)
AcceptNotifications(store, req) ==
    IF req.answer.author # req.actor
    THEN Push(store, NewNotification(req.answer.author, req.actor, "accepted_answer",
                                     req.answer.question, req.id))
    ELSE store

\* res.json({message, answer: {id, isAccepted, acceptedAt}}), from memory
AcceptResponse(req, now) ==
    [Response("accept", 200, AcceptMessage(200))
        EXCEPT !.actor = req.actor, !.answer = req.id,
               !.body = [NoBody EXCEPT !.answer = req.id, !.isAccepted = TRUE,
                                       !.acceptedAt = now]]

\* Room for what a passing accept creates.
AcceptFits(actor, id) ==
    /\ clock < MaxClock
    /\ answers[id].author # actor => Len(notifications) < MaxNotifications

\* The whole request, handled without interruption.
AcceptAnswer(actor, id) ==
    /\ inflight = {}
    /\ LET status == AcceptCheck(actor, id)
       IN  IF status # 200
           THEN /\ last' = Response("accept", status, AcceptMessage(status))
                /\ UNCHANGED <<questions, answers, notifications, clock>>
           ELSE LET req == Fetched(actor, id)
                    now == clock + 1
                IN  /\ AcceptFits(actor, id)
                    /\ clock' = now
                    /\ answers' = AcceptNew(UnacceptPrevious(answers, req), req, now)
                    /\ questions' = UpdateQuestion(questions, req)
                    /\ notifications' = AcceptNotifications(notifications, req)
                    /\ last' = AcceptResponse(req, now)
    /\ UNCHANGED <<inflight, users>>

\* The same request when notification.save() rejects: the three documents
\* are persisted, the rejection (no CastError) is caught by the handler's
\* catch block.
AcceptAnswerNotifyFails(actor, id) ==
    /\ inflight = {}
    /\ AcceptCheck(actor, id) = 200
    /\ answers[id].author # actor
    /\ clock < MaxClock
    /\ LET req == Fetched(actor, id)
           now == clock + 1
       IN  /\ clock' = now
           /\ answers' = AcceptNew(UnacceptPrevious(answers, req), req, now)
           /\ questions' = UpdateQuestion(questions, req)
    /\ last' = Response("accept", 500, "Server error")
    /\ UNCHANGED <<notifications, inflight, users>>

(* The same request, one persist at a time.                                *)

AcceptBegin(actor, id) ==
    /\ LET status == AcceptCheck(actor, id)
       IN  IF status # 200
           THEN /\ last' = Response("accept", status, AcceptMessage(status))
                /\ UNCHANGED inflight
           ELSE /\ AcceptFits(actor, id)
                /\ Cardinality(inflight) < MaxRequests
                /\ Fetched(actor, id) \notin inflight
                /\ inflight' = inflight \cup {Fetched(actor, id)}
                /\ last' = Response("accept", 0, Null)
    /\ UNCHANGED <<questions, answers, notifications, clock, users>>

\* await previousAnswer.save()
AcceptUnacceptStep(req) ==
    /\ req \in inflight /\ req.step = "unaccept"
    /\ answers' = UnacceptPrevious(answers, req)
    /\ inflight' = (inflight \ {req}) \cup {[req EXCEPT !.step = "accept"]}
    /\ UNCHANGED <<questions, notifications, clock, last, users>>

\* await answer.save()
AcceptNewStep(req) ==
    /\ req \in inflight /\ req.step = "accept"
    /\ clock' = clock + 1
    /\ answers' = AcceptNew(answers, req, clock + 1)
    /\ inflight' = (inflight \ {req})
                     \cup {[req EXCEPT !.step = "question", !.now = clock + 1]}
    /\ UNCHANGED <<questions, notifications, last, users>>

\* await question.save()
AcceptQuestionStep(req) ==
    /\ req \in inflight /\ req.step = "question"
    /\ questions' = UpdateQuestion(questions, req)
    /\ inflight' = (inflight \ {req}) \cup {[req EXCEPT !.step = "notify"]}
    /\ UNCHANGED <<answers, notifications, clock, last, users>>

\* await notification.save(); res.json(...)
AcceptNotifyStep(req) ==
    /\ req \in inflight /\ req.step = "notify"
    /\ notifications' = AcceptNotifications(notifications, req)
    /\ inflight' = inflight \ {req}
    /\ last' = AcceptResponse(req, req.now)
    /\ UNCHANGED <<questions, answers, clock, users>>

-----------------------------------------------------------------------------
(* The ledger of one question and one answer to it.                        *)

InitVote ==
    /\ questions = [id \in {"q1"} |-> NewQuestion("u1")]
    /\ \E author \in {"u1", "u2"} :
         answers = <<NewAnswer(author, "q1")>>
    /\ notifications = <<>>
    /\ clock = 0
    /\ last = NoRequest
    /\ inflight = {}
    /\ users = Usernames

NextVote ==
    \/ \E actor \in Users, id \in QuestionRefs, voteType \in VoteInputs :
         VoteQuestion(actor, id, voteType)
    \/ \E actor \in Users, id \in AnswerRefs, voteType \in VoteInputs :
         VoteAnswer(actor, id, voteType)
    \/ \E actor \in Users, id \in AnswerRefs : DeleteAnswer(actor, id)
    \/ \E id \in QuestionIds : DeactivateQuestion(id)

SpecVote == InitVote /\ [][NextVote]_vars

-----------------------------------------------------------------------------
(* Two questions, their answers and the acceptance workflow, one request   *)
(* at a time.                                                              *)

\* The users who write answers here: the authors of the two questions (u3,
\* the administrator, accepts and deletes but writes none).
Answerers == {"u1", "u2"}

Init ==
    /\ questions = [id \in QuestionIds |->
                      NewQuestion(IF id = "q1" THEN "u1" ELSE "u2")]
    /\ answers = <<>>
    /\ notifications = <<>>
    /\ clock = 0
    /\ last = NoRequest
    /\ inflight = {}
    /\ users = Usernames

Next ==
    \/ \E actor \in Answerers, questionId \in QuestionIds :
         CreateAnswer(actor, questionId, MinAnswerLength)
    \/ \E actor \in Users, id \in AnswerRefs : AcceptAnswer(actor, id)
    \/ \E actor \in Users, id \in AnswerRefs : DeleteAnswer(actor, id)
    \/ \E id \in QuestionIds : CloseQuestion(id)

Spec == Init /\ [][Next]_vars

(* The same, with the persists of an accept request as separate steps.     *)

NextSteps ==
    \/ \E actor \in Answerers, questionId \in QuestionIds :
         CreateAnswer(actor, questionId, MinAnswerLength)
    \/ \E actor \in Users, id \in AnswerRefs : inflight = {} /\ AcceptBegin(actor, id)
    \/ \E req \in inflight : AcceptUnacceptStep(req)
    \/ \E req \in inflight : AcceptNewStep(req)
    \/ \E req \in inflight : AcceptQuestionStep(req)
    \/ \E req \in inflight : AcceptNotifyStep(req)
    \/ \E actor \in Users, id \in AnswerRefs : DeleteAnswer(actor, id)
    \/ \E id \in QuestionIds : CloseQuestion(id)

SpecSteps == Init /\ [][NextSteps]_vars

-----------------------------------------------------------------------------
(* Properties of the vote ledger (SpecVote).                               *)

VoteOps == {"vote_question", "vote_answer"}

\* The document a recorded vote was cast on, and its ledger.
VotedDocument(response) ==
    IF response.op = "vote_question"
    THEN questions[response.question] ELSE answers[response.answer]

VotedLedger(response) == VotedDocument(response).votes

\* The same document after the step.
VotedDocumentNext(response) ==
    IF response.op = "vote_question"
    THEN questions'[response.question] ELSE answers'[response.answer]

AllLedgers ==
    {questions[id].votes : id \in DOMAIN questions}
        \cup {answers[id].votes : id \in DOMAIN answers}

LedgerExclusive(votes) ==
    /\ Elems(votes.upvotes) \cap Elems(votes.downvotes) = {}
    /\ NoDuplicates(votes.upvotes)
    /\ NoDuplicates(votes.downvotes)

SetOf(voteType) == IF voteType = "upvote" THEN "up" ELSE "down"
Opposite(voteType) == IF voteType = "upvote" THEN "down" ELSE "up"

\* C1: after any sequence of vote requests handled one at a time, every
\* identity is in at most one of upvotes/downvotes of every question and
\* answer, and at most once in it.
C1_VoteSetsExclusive == \A votes \in AllLedgers : LedgerExclusive(votes)

\* A voter has just switched sides on a ledger that holds another vote too.
C1_Witness ==
    /\ last.op \in VoteOps /\ last.status = 200
    /\ last.prior \in {"up", "down"} /\ last.prior = Opposite(last.arg)
    /\ Len(VotedLedger(last).upvotes) + Len(VotedLedger(last).downvotes) >= 2

\* The second of two consecutive recorded votes of one voter, of the same
\* type on the same item, the first of which found the voter in no set.
RepeatedVote ==
    /\ last.op \in VoteOps /\ last.status = 200 /\ last.prior = "none"
    /\ last'.op = last.op /\ last'.status = 200
    /\ last'.actor = last.actor /\ last'.arg = last.arg
    /\ last'.question = last.question /\ last'.answer = last.answer
    /\ last' # last

\* C2: a non-author voter in no set who votes the same type twice in a row
\* is in neither set afterwards, and the score after the second vote is the
\* score before the first.
C2_SameVoteTwiceRetracts ==
    [][RepeatedVote =>
        /\ Membership(VotedDocumentNext(last').votes, last'.actor) = "none"
        /\ VoteScore(VotedDocumentNext(last')) = last.scoreBefore
        /\ last'.body.voteScore = last.scoreBefore]_vars

\* A vote of the type the voter already held has been recorded and took the
\* voter out of both sets, on a ledger whose score is not zero.
C2_Witness ==
    /\ last.op \in VoteOps /\ last.status = 200
    /\ last.prior = SetOf(last.arg)
    /\ Membership(VotedLedger(last), last.actor) = "none"
    /\ last.body.voteScore # 0

\* C3: a recorded vote of the type opposite to the one the voter held leaves
\* the voter in exactly the requested set, and no persisted ledger ever has
\* a voter in both sets.
C3_OppositeVoteSwitches ==
    /\ (last.op \in VoteOps /\ last.status = 200 /\ last.prior = Opposite(last.arg))
          => Membership(VotedLedger(last), last.actor) = SetOf(last.arg)
    /\ \A votes \in AllLedgers, u \in Users : Membership(votes, u) # "both"

C3_Witness ==
    /\ last.op = "vote_answer" /\ last.status = 200
    /\ last.prior = "up" /\ last.arg = "downvote"
    /\ Membership(answers[last.answer].votes, last.actor) = "down"

\* C4 as stated: every vote request by the author of the targeted item is
\* rejected with the self-vote error (400) and changes no voter set.
C4_AuthorVoteIsSelfVoteError ==
    [][\A actor \in Users, voteType \in VoteTypes :
        /\ \A id \in DOMAIN questions :
             (/\ questions[id].author = actor
              /\ last'.op = "vote_question" /\ VoteQuestion(actor, id, voteType))
                => /\ last'.status = 400
                   /\ last'.message = SelfVoteMessage("Question")
                   /\ UNCHANGED <<questions, answers>>
        /\ \A id \in DOMAIN answers :
             (/\ answers[id].author = actor
              /\ last'.op = "vote_answer" /\ VoteAnswer(actor, id, voteType))
                => /\ last'.status = 400
                   /\ last'.message = SelfVoteMessage("Answer")
                   /\ UNCHANGED <<questions, answers>>]_vars

\* C4, amended: a vote request by the author of the targeted item changes no
\* voter set; it is rejected with the self-vote error (400) when the item is
\* active and as not found (404) when the item is soft-deleted.
C4_AuthorVoteRejected ==
    [][\A actor \in Users, voteType \in VoteTypes :
        /\ \A id \in DOMAIN questions :
             (/\ questions[id].author = actor
              /\ last'.op = "vote_question" /\ VoteQuestion(actor, id, voteType))
                => /\ UNCHANGED <<questions, answers>>
                   /\ IF questions[id].isActive
                      THEN /\ last'.status = 400
                           /\ last'.message = SelfVoteMessage("Question")
                      ELSE last'.status = 404
        /\ \A id \in DOMAIN answers :
             (/\ answers[id].author = actor
              /\ last'.op = "vote_answer" /\ VoteAnswer(actor, id, voteType))
                => /\ UNCHANGED <<questions, answers>>
                   /\ IF answers[id].isActive
                      THEN /\ last'.status = 400
                           /\ last'.message = SelfVoteMessage("Answer")
                      ELSE last'.status = 404]_vars

\* The author's vote on a question that others have voted on was rejected.
C4_Witness ==
    /\ last.op = "vote_question" /\ last.status = 400
    /\ last.message = SelfVoteMessage("Question")
    /\ \E id \in DOMAIN questions :
         /\ questions[id].isActive
         /\ questions[id].votes.upvotes # <<>>
         /\ questions[id].votes.downvotes # <<>>

\* C5: a vote request on a question or answer that does not exist or is
\* soft-deleted is rejected as not found (404) and changes no voter set, and
\* the soft delete itself leaves the votes cast before it as they were.
C5_VoteOnMissingOrDeleted ==
    [][\A actor \in Users, voteType \in VoteTypes :
        /\ \A id \in QuestionRefs :
             (/\ ~QuestionExists(id) \/ ~questions[id].isActive
              /\ last'.op = "vote_question" /\ VoteQuestion(actor, id, voteType))
                => /\ last'.status = 404 /\ last'.message = "Question not found"
                   /\ UNCHANGED <<questions, answers>>
        /\ \A id \in AnswerRefs :
             (/\ ~AnswerExists(id) \/ ~answers[id].isActive
              /\ last'.op = "vote_answer" /\ VoteAnswer(actor, id, voteType))
                => /\ last'.status = 404 /\ last'.message = "Answer not found"
                   /\ UNCHANGED <<questions, answers>>
        /\ \A id \in DOMAIN questions :
             ~questions'[id].isActive => questions'[id].votes = questions[id].votes
        /\ \A id \in DOMAIN answers :
             ~answers'[id].isActive => answers'[id].votes = answers[id].votes]_vars

\* A vote on a soft-deleted answer that holds earlier votes was rejected.
C5_Witness ==
    /\ last.op = "vote_answer" /\ last.status = 404
    /\ \E id \in DOMAIN answers :
         /\ ~answers[id].isActive
         /\ answers[id].votes.upvotes # <<>>

-----------------------------------------------------------------------------
(* Properties of the acceptance workflow (Spec, SpecSteps).                *)

ParentOf(id) == answers[id].question
AnswersOf(questionId) == {id \in DOMAIN answers : answers[id].question = questionId}
AcceptedOf(questionId) == {id \in AnswersOf(questionId) : answers[id].isAccepted}
AcceptState == <<questions, answers, notifications>>

\* C6: when the question author accepts answer B on an open question whose
\* accepted answer is a different answer A, afterwards A is not accepted and
\* has no acceptance date, B is accepted with a date, and the question's
\* acceptedAnswer is B.
C6_AcceptReplacesPrevious ==
    [][\A actor \in Users, b \in DOMAIN answers :
        LET q == ParentOf(b)
            a == questions[q].acceptedAnswer
        IN  (/\ answers[b].isActive
             /\ questions[q].author = actor /\ ~questions[q].isClosed
             /\ a # NoAnswer /\ a # b
             /\ last'.op = "accept" /\ AcceptAnswer(actor, b))
               => /\ ~answers'[a].isAccepted /\ answers'[a].acceptedAt = NoDate
                  /\ answers'[b].isAccepted /\ answers'[b].acceptedAt # NoDate
                  /\ questions'[q].acceptedAnswer = b
                  /\ last'.status = 200]_vars

\* An answer was accepted in place of another answer of the same question,
\* whose author had been notified of its acceptance.
C6_Witness ==
    /\ last.op = "accept" /\ last.status = 200
    /\ \E a \in AnswersOf(ParentOf(last.answer)) \ {last.answer} :
         /\ ~answers[a].isAccepted
         /\ \E i \in 1..Len(notifications) :
              /\ notifications[i].type = "accepted_answer"
              /\ notifications[i].relatedAnswer = a

\* C7: in every persisted state, also between the persists of one accept
\* request, a question has at most one accepted answer, and an answer of the
\* question is accepted exactly when the question's acceptedAnswer names it.
C7_AcceptedAgreesWithReference ==
    \A q \in DOMAIN questions :
        /\ Cardinality(AcceptedOf(q)) <= 1
        /\ \A id \in AnswersOf(q) :
             answers[id].isAccepted <=> questions[q].acceptedAnswer = id

\* C8 as stated: an accept request by anyone but the author of the answer's
\* parent question is rejected (403) and changes nothing.
C8_NonAuthorAcceptIs403 ==
    [][\A actor \in Users, id \in DOMAIN answers :
        (/\ questions[ParentOf(id)].author # actor
         /\ last'.op = "accept" /\ AcceptAnswer(actor, id))
           => /\ last'.status = 403
              /\ UNCHANGED AcceptState]_vars

\* C8, amended: such a request changes no answer, question or notification;
\* it is rejected 403 when the answer is active and 404 when the answer is
\* soft-deleted.
C8_NonAuthorAcceptRejected ==
    [][\A actor \in Users, id \in DOMAIN answers :
        (/\ questions[ParentOf(id)].author # actor
         /\ last'.op = "accept" /\ AcceptAnswer(actor, id))
           => /\ last'.status = IF answers[id].isActive THEN 403 ELSE 404
              /\ last'.message = AcceptMessage(last'.status)
              /\ UNCHANGED AcceptState]_vars

\* An accept was refused with 403 on a store that holds an accepted answer
\* and a notification.
C8_Witness ==
    /\ last.op = "accept" /\ last.status = 403
    /\ \E id \in DOMAIN answers : answers[id].isAccepted /\ answers[id].isActive
    /\ notifications # <<>>

\* C9 as stated: an accept request by the question author on a closed
\* question is rejected (400) and changes nothing.
C9_ClosedAcceptIs400 ==
    [][\A actor \in Users, id \in DOMAIN answers :
        (/\ questions[ParentOf(id)].author = actor
         /\ questions[ParentOf(id)].isClosed
         /\ last'.op = "accept" /\ AcceptAnswer(actor, id))
           => /\ last'.status = 400
              /\ UNCHANGED AcceptState]_vars

\* C9, amended: such a request changes no answer, question or notification;
\* it is rejected 400 when the answer is active and 404 when the answer is
\* soft-deleted.
C9_ClosedAcceptRejected ==
    [][\A actor \in Users, id \in DOMAIN answers :
        (/\ questions[ParentOf(id)].author = actor
         /\ questions[ParentOf(id)].isClosed
         /\ last'.op = "accept" /\ AcceptAnswer(actor, id))
           => /\ last'.status = IF answers[id].isActive THEN 400 ELSE 404
              /\ last'.message = AcceptMessage(last'.status)
              /\ UNCHANGED AcceptState]_vars

\* An accept was refused with 400 while a closed question has an accepted
\* answer and another, active answer.
C9_Witness ==
    /\ last.op = "accept" /\ last.status = 400
    /\ \E q \in DOMAIN questions :
         /\ questions[q].isClosed
         /\ questions[q].acceptedAnswer # NoAnswer
         /\ \E id \in AnswersOf(q) : id # questions[q].acceptedAnswer /\ answers[id].isActive

\* C10: an accept request for a missing or soft-deleted answer is rejected
\* as not found (404) and changes nothing; no request makes a soft-deleted
\* answer accepted or the accepted answer of a question; and the accepted
\* answer of a question is always an answer to that question.
C10_DeletedNeverAccepted ==
    [][/\ \A actor \in Users, id \in AnswerRefs :
            (/\ ~AnswerExists(id) \/ ~answers[id].isActive
             /\ last'.op = "accept" /\ AcceptAnswer(actor, id))
               => /\ last'.status = 404 /\ last'.message = "Answer not found"
                  /\ UNCHANGED AcceptState
       /\ \A id \in DOMAIN answers :
            ~answers[id].isActive
               => /\ answers'[id].isAccepted => answers[id].isAccepted
                  /\ \A q \in DOMAIN questions :
                       questions'[q].acceptedAnswer = id
                          => questions[q].acceptedAnswer = id
       /\ \A q \in DOMAIN questions :
            questions'[q].acceptedAnswer # NoAnswer
               => answers'[questions'[q].acceptedAnswer].question = q]_vars

\* An accept of a soft-deleted, never accepted answer was refused while
\* both questions have an accepted answer.
C10_Witness ==
    /\ last.op = "accept" /\ last.status = 404
    /\ \E id \in DOMAIN answers : ~answers[id].isActive /\ ~answers[id].isAccepted
    /\ \E q \in DOMAIN questions : questions[q].acceptedAnswer # NoAnswer

-----------------------------------------------------------------------------
(* Notifications of the acceptance workflow (Spec).                        *)

\* The notifications of store from position n + 1 on.
NotificationsAfter(store, n) == SubSeq(store, n + 1, Len(store))

\* C11: a successful accept request creates exactly one notification, of
\* type accepted_answer, to the accepted answer's author with the actor as
\* sender, when the actor is not that author, and none when the actor is
\* that author; the notifications that existed stay as they were, and none
\* is addressed to the author of the previously accepted answer.
C11_AcceptNotifiesAnswerAuthor ==
    [][\A actor \in Users, id \in DOMAIN answers :
        (/\ last'.op = "accept" /\ AcceptAnswer(actor, id)
         /\ last'.status = 200)
           => LET created == NotificationsAfter(notifications', Len(notifications))
              IN  /\ SubSeq(notifications', 1, Len(notifications)) = notifications
                  /\ IF answers[id].author = actor
                     THEN created = <<>>
                     ELSE /\ Len(created) = 1
                          /\ created[1].type = "accepted_answer"
                          /\ created[1].recipient = answers[id].author
                          /\ created[1].sender = actor
                          /\ created[1].relatedAnswer = id
                          /\ created[1].relatedQuestion = ParentOf(id)]_vars

\* The question author accepted another user's answer in place of an answer
\* of their own, and the newest notification tells that user so.
C11_Witness ==
    /\ last.op = "accept" /\ last.status = 200
    /\ answers[last.answer].author # last.actor
    /\ notifications # <<>>
    /\ notifications[Len(notifications)].type = "accepted_answer"
    /\ notifications[Len(notifications)].relatedAnswer = last.answer
    /\ \E a \in AnswersOf(ParentOf(last.answer)) \ {last.answer} :
         /\ answers[a].author = last.actor
         /\ ~answers[a].isAccepted
    /\ answers[last.answer].isAccepted
    /\ questions[ParentOf(last.answer)].acceptedAnswer = last.answer
    /\ clock >= 2

\* C12: accepting the answer that is already the question's accepted answer
\* succeeds, leaves the answer accepted and the question's acceptedAnswer
\* unchanged, and creates no further notification.
C12_ReacceptIsNoOp ==
    [][\A actor \in Users, id \in DOMAIN answers :
        (/\ answers[id].isAccepted
         /\ questions[ParentOf(id)].acceptedAnswer = id
         /\ last'.op = "accept" /\ AcceptAnswer(actor, id)
         /\ questions[ParentOf(id)].author = actor)
           => /\ last'.status = 200
              /\ answers'[id].isAccepted
              /\ questions'[ParentOf(id)].acceptedAnswer = id
              /\ notifications' = notifications]_vars

-----------------------------------------------------------------------------
(* Answer creation on two questions that can be soft-deleted.              *)

NextCreate ==
    \/ \E actor \in Users, questionId \in QuestionRefs \cup {MalformedId},
          contentLength \in ContentLengths :
         CreateAnswer(actor, questionId, contentLength)
    \/ \E actor \in Users, id \in AnswerRefs : DeleteAnswer(actor, id)
    \/ \E id \in QuestionIds : DeactivateQuestion(id)

SpecCreate == Init /\ [][NextCreate]_vars

\* C13: an answer-creation request with valid fields whose parent question
\* does not exist or is inactive is answered 404 and persists nothing: no
\* answer, no change to any question, no notification.
C13_CreateOnMissingQuestion ==
    [][\A actor \in Users, questionId \in QuestionRefs :
        (/\ ~QuestionExists(questionId) \/ ~questions[questionId].isActive
         /\ last'.op = "create_answer"
         /\ CreateAnswer(actor, questionId, MinAnswerLength))
           => /\ last'.status = 404 /\ last'.message = "Question not found"
              /\ UNCHANGED <<questions, answers, notifications>>]_vars

\* An answer to a soft-deleted question that has an answer, whose author
\* was notified of it, was refused.
C13_Witness ==
    /\ last.op = "create_answer" /\ last.status = 404
    /\ \E q \in DOMAIN questions :
         /\ ~questions[q].isActive
         /\ questions[q].answers # <<>>
         /\ \E i \in 1..Len(notifications) : notifications[i].relatedQuestion = q

\* C14: a successful answer creation creates exactly one notification, of
\* type answer, to the parent question's author with the answerer as sender
\* and the question and the new answer as references, when the answerer is
\* not the question's author, and none when the answer is self-authored;
\* the notifications that existed stay as they were.
C14_CreateNotifiesQuestionAuthor ==
    [][\A actor \in Users, questionId \in DOMAIN questions :
        (/\ last'.op = "create_answer"
         /\ CreateAnswer(actor, questionId, MinAnswerLength)
         /\ last'.status = 201)
           => LET created == NotificationsAfter(notifications', Len(notifications))
              IN  /\ SubSeq(notifications', 1, Len(notifications)) = notifications
                  /\ IF questions[questionId].author = actor
                     THEN created = <<>>
                     ELSE /\ Len(created) = 1
                          /\ created[1].type = "answer"
                          /\ created[1].recipient = questions[questionId].author
                          /\ created[1].sender = actor
                          /\ created[1].relatedQuestion = questionId
                          /\ created[1].relatedAnswer = last'.body.answer
                          /\ answers'[last'.body.answer].author = actor
                          /\ answers'[last'.body.answer].question = questionId]_vars

\* An answer by another user was created after a self-authored one: the
\* newest notification is about the new answer and none is about the
\* self-authored one.
C14_Witness ==
    /\ last.op = "create_answer" /\ last.status = 201
    /\ notifications # <<>>
    /\ notifications[Len(notifications)].type = "answer"
    /\ notifications[Len(notifications)].relatedAnswer = last.body.answer
    /\ notifications[Len(notifications)].sender = answers[last.body.answer].author
    /\ \E a \in DOMAIN answers :
         /\ answers[a].author = questions[ParentOf(a)].author
         /\ \A i \in 1..Len(notifications) : notifications[i].relatedAnswer # a

-----------------------------------------------------------------------------
(* Soft delete of the answers of one question: two answers that are voted  *)
(* on, accepted and deleted.                                               *)

\* q1 of u1 as it is after u2 and then u1 have answered it.
InitDelete ==
    /\ questions = [id \in {"q1"} |-> [NewQuestion("u1") EXCEPT !.answers = <<1, 2>>]]
    /\ answers = <<NewAnswer("u2", "q1"), NewAnswer("u1", "q1")>>
    /\ notifications = <<NewNotification("u1", "u2", "answer", "q1", 1)>>
    /\ clock = 0
    /\ last = NoRequest
    /\ inflight = {}
    /\ users = Usernames

NextDelete ==
    \/ \E actor \in Users, id \in AnswerRefs, voteType \in VoteTypes :
         VoteAnswer(actor, id, voteType)
    \/ \E actor \in Users, id \in AnswerRefs : AcceptAnswer(actor, id)
    \/ \E actor \in Users, id \in AnswerRefs : DeleteAnswer(actor, id)

SpecDelete == InitDelete /\ [][NextDelete]_vars

\* C15: a successful soft delete of an answer sets its isActive to false and
\* leaves every other field of the record (author, question, voter sets,
\* accepted flag and date) as it was; its id is no longer in the parent
\* question's answers list, which keeps its other entries; no other answer,
\* no other field of a question and no notification changes.
C15_SoftDeleteFrame ==
    [][\A actor \in Users, id \in DOMAIN answers :
        (/\ last'.op = "delete_answer" /\ DeleteAnswer(actor, id)
         /\ last'.status = 200)
           => LET q == ParentOf(id)
              IN  /\ answers' = [answers EXCEPT ![id].isActive = FALSE]
                  /\ id \notin Elems(questions'[q].answers)
                  /\ Elems(questions'[q].answers) = Elems(questions[q].answers) \ {id}
                  /\ questions' = [questions EXCEPT ![q].answers = questions'[q].answers]
                  /\ notifications' = notifications]_vars

\* An accepted answer that holds an upvote and a downvote was soft-deleted:
\* it is inactive, still accepted and voted, and gone from the question's
\* list, which still holds the other answer.
C15_Witness ==
    /\ last.op = "delete_answer" /\ last.status = 200
    /\ ~answers[last.answer].isActive
    /\ answers[last.answer].isAccepted
    /\ answers[last.answer].votes.upvotes # <<>>
    /\ answers[last.answer].votes.downvotes # <<>>
    /\ last.answer \notin Elems(questions[ParentOf(last.answer)].answers)
    /\ questions[ParentOf(last.answer)].answers # <<>>
    /\ notifications # <<>>

\* C16: an answer delete request by the answer's author or an administrator
\* succeeds; by any other actor it is rejected (403) and changes neither the
\* answer's isActive nor the parent question's answers list.
C16_DeleteNeedsAuthorOrAdmin ==
    [][\A actor \in Users, id \in DOMAIN answers :
        (last'.op = "delete_answer" /\ DeleteAnswer(actor, id))
           => IF answers[id].author = actor \/ actor \in Admins
              THEN last'.status = 200
              ELSE /\ last'.status = 403
                   /\ last'.message = "Not authorized to delete this answer"
                   /\ UNCHANGED <<questions, answers, notifications>>]_vars

\* A delete request was refused with 403 while an active answer is accepted
\* and listed in its question.
C16_Witness ==
    /\ last.op = "delete_answer" /\ last.status = 403
    /\ \E id \in DOMAIN answers :
         /\ answers[id].isActive /\ answers[id].isAccepted
         /\ id \in Elems(questions[ParentOf(id)].answers)

-----------------------------------------------------------------------------
(* GET /api/questions/:id and the view counter.                            *)

Anonymous == Null                     \* optionalAuth left req.user undefined
Viewers == Users \cup {Anonymous}

MaxViews == 3                         \* bound on the view counter
MaxReaders == 2                       \* bound on the reads between fetch and save

\* A read that counts the author's views too.
CountsEveryone(question, viewer) == TRUE

\* Increment view count (only if not the author)
Counts(question, viewer) ==
    viewer = Anonymous \/ viewer # question.author

\* res.json(question), with the counter of the in-memory document
ReadResponse(viewer, id, views) ==
    [Response("get_question", 200, Null)
        EXCEPT !.actor = viewer, !.question = id,
               !.body = [NoBody EXCEPT !.views = views]]

\* The whole request, handled without interruption.
GetQuestion(viewer, id) ==
    /\ inflight = {}
    /\ IF ~QuestionExists(id) \/ ~questions[id].isActive
       THEN /\ last' = Response("get_question", 404, "Question not found")
            /\ UNCHANGED questions
       ELSE IF Counts(questions[id], viewer)
       THEN /\ questions[id].views < MaxViews
            \* question.views += 1; await question.save()
            /\ questions' = [questions EXCEPT ![id].views = @ + 1]
            /\ last' = ReadResponse(viewer, id, questions[id].views + 1)
       ELSE /\ last' = ReadResponse(viewer, id, questions[id].views)
            /\ UNCHANGED questions
    /\ UNCHANGED <<answers, notifications, clock, inflight, users>>

(* The same request with its fetch and its save as separate steps.         *)

\* Question.findById(req.params.id): the counter the request has read
Read(viewer, id) ==
    [viewer |-> viewer, id |-> id, views |-> questions[id].views, step |-> "save"]

GetBegin(viewer, id) ==
    /\ IF ~QuestionExists(id) \/ ~questions[id].isActive
       THEN /\ last' = Response("get_question", 404, "Question not found")
            /\ UNCHANGED inflight
       ELSE IF Counts(questions[id], viewer)
       THEN /\ questions[id].views < MaxViews
            /\ Cardinality(inflight) < MaxReaders
            /\ Read(viewer, id) \notin inflight
            /\ inflight' = inflight \cup {Read(viewer, id)}
            /\ last' = Response("get_question", 0, Null)
       ELSE /\ last' = ReadResponse(viewer, id, questions[id].views)
            /\ UNCHANGED inflight
    /\ UNCHANGED <<questions, answers, notifications, clock, users>>

\* question.views += 1; await question.save(): the save writes the modified
\* path, views, with the value computed from the counter that was fetched
GetSaveStep(req) ==
    /\ req \in inflight /\ req.step = "save"
    /\ questions' = [questions EXCEPT ![req.id].views = req.views + 1]
    /\ inflight' = inflight \ {req}
    /\ last' = ReadResponse(req.viewer, req.id, req.views + 1)
    /\ UNCHANGED <<answers, notifications, clock, users>>

(* Reads, votes and soft deletes of two questions, one request at a time.  *)

NextView ==
    \/ \E viewer \in Viewers, id \in QuestionRefs : GetQuestion(viewer, id)
    \/ \E actor \in Users, id \in QuestionIds, voteType \in VoteTypes :
         VoteQuestion(actor, id, voteType)
    \/ \E id \in QuestionIds : DeactivateQuestion(id)

SpecView == Init /\ [][NextView]_vars

(* Reads of one question whose fetch and save interleave with other reads  *)
(* and with the votes of one user on the question.                         *)

InitViewSteps ==
    /\ questions = [id \in {"q1"} |-> NewQuestion("u1")]
    /\ answers = <<>>
    /\ notifications = <<>>
    /\ clock = 0
    /\ last = NoRequest
    /\ inflight = {}
    /\ users = Usernames

NextViewSteps ==
    \/ \E viewer \in Viewers, id \in {"q1", MissingQuestion} : GetBegin(viewer, id)
    \/ \E req \in inflight : GetSaveStep(req)
    \/ \E voteType \in VoteTypes : VoteQuestion("u2", "q1", voteType)

SpecViewSteps == InitViewSteps /\ [][NextViewSteps]_vars

\* C17: handled one at a time, a read of an active question by an
\* unauthenticated viewer or by a user other than the question's author is
\* answered 200 and raises the question's views by exactly 1, a read by the
\* author leaves it unchanged, and nothing else changes any question's
\* views; so N such reads and any number of author reads raise it by N.
C17_ReadCountsNonAuthorViews ==
    [][/\ \A viewer \in Viewers, id \in DOMAIN questions :
            (/\ questions[id].isActive
             /\ last'.op = "get_question" /\ GetQuestion(viewer, id))
               => /\ last'.status = 200
                  /\ questions'[id].views =
                        IF viewer = Anonymous \/ viewer # questions[id].author
                        THEN questions[id].views + 1 ELSE questions[id].views
                  /\ last'.body.views = questions'[id].views
                  /\ \A other \in DOMAIN questions \ {id} :
                        questions'[other].views = questions[other].views
       /\ last'.op # "get_question"
            => \A id \in DOMAIN questions : questions'[id].views = questions[id].views]_vars

\* An unauthenticated read of a voted question was counted as its second
\* view or a later one, while the other question has no view.
C17_Witness ==
    /\ last.op = "get_question" /\ last.status = 200
    /\ last.actor = Anonymous
    /\ questions[last.question].views >= 2
    /\ last.body.views = questions[last.question].views
    /\ questions[last.question].votes.upvotes # <<>>
    /\ \E other \in DOMAIN questions : questions[other].views = 0

\* C18: the views of a question never decrease, in any execution and also
\* when reads interleave with each other and with votes on the question.
C18_ViewsNeverDecrease ==
    [][\A id \in DOMAIN questions : questions'[id].views >= questions[id].views]_vars

-----------------------------------------------------------------------------
(* Answer creation and acceptance when saving a notification can fail.     *)

NextFail ==
    \/ \E actor \in Answerers, questionId \in QuestionIds :
         CreateAnswer(actor, questionId, MinAnswerLength)
    \/ \E actor \in Answerers, questionId \in QuestionIds :
         CreateAnswerNotifyFails(actor, questionId, MinAnswerLength)
    \/ \E actor \in Users, id \in AnswerRefs : AcceptAnswer(actor, id)
    \/ \E actor \in Users, id \in AnswerRefs : AcceptAnswerNotifyFails(actor, id)

SpecFail == Init /\ [][NextFail]_vars

\* C19: when saving the notification fails during answer creation or answer
\* acceptance, the request still reports success (201 for creation, 200 for
\* acceptance) and what it had persisted stays: the new answer in the
\* collection and in the question's answers list, the accepted answer as
\* the question's acceptedAnswer.
C19_NotificationFailureSwallowed ==
    [][/\ \A actor \in Users, questionId \in DOMAIN questions :
            (/\ last'.op = "create_answer"
             /\ CreateAnswerNotifyFails(actor, questionId, MinAnswerLength))
               => /\ last'.status = 201
                  /\ Len(answers') = Len(answers) + 1
                  /\ Len(answers') \in Elems(questions'[questionId].answers)
       /\ \A actor \in Users, id \in DOMAIN answers :
            (/\ last'.op = "accept"
             /\ AcceptAnswerNotifyFails(actor, id))
               => /\ last'.status = 200
                  /\ questions'[ParentOf(id)].acceptedAnswer = id]_vars

\* What does hold when saving the notification fails: the request is
\* answered 500, no notification is added, and what was persisted stays.
NotificationFailureIs500 ==
    [][/\ \A actor \in Users, questionId \in DOMAIN questions :
            (/\ last'.op = "create_answer"
             /\ CreateAnswerNotifyFails(actor, questionId, MinAnswerLength))
               => /\ last'.status = 500
                  /\ notifications' = notifications
                  /\ Len(answers') = Len(answers) + 1
                  /\ Len(answers') \in Elems(questions'[questionId].answers)
       /\ \A actor \in Users, id \in DOMAIN answers :
            (/\ last'.op = "accept"
             /\ AcceptAnswerNotifyFails(actor, id))
               => /\ last'.status = 500
                  /\ notifications' = notifications
                  /\ questions'[ParentOf(id)].acceptedAnswer = id]_vars

-----------------------------------------------------------------------------
(* POST /api/questions and the field validation of the three POST routes.  *)

MinTitleLength == 10                  \* body('title').isLength({ min: 10, max: 200 })
MaxTitleLength == 200
MinDescriptionLength == 20            \* body('description').isLength({ min: 20 })
MinTags == 1                          \* body('tags').isArray({ min: 1, max: 5 })
MaxTags == 5
MaxTagLength == 30                    \* tag.length > 30

\* The request fields, by their lengths; a tag list is the sequence of the
\* lengths of its tags, NotAString standing for a tag that is no string.
NotAString == -1
TitleLengths ==
    {MinTitleLength - 1, MinTitleLength, MaxTitleLength, MaxTitleLength + 1}
DescriptionLengths == {MinDescriptionLength - 1, MinDescriptionLength}
TagLists ==
    {<<>>, <<MaxTagLength>>, <<MaxTagLength + 1>>, <<NotAString>>,
     [i \in 1..MaxTags |-> 1], [i \in 1..(MaxTags + 1) |-> 1]}

\* validationResult(req).isEmpty() for the chains of POST /
QuestionValid(titleLength, descriptionLength, tags) ==
    /\ titleLength >= MinTitleLength /\ titleLength <= MaxTitleLength
    /\ descriptionLength >= MinDescriptionLength
    /\ Len(tags) >= MinTags /\ Len(tags) <= MaxTags
    /\ \A i \in 1..Len(tags) : tags[i] # NotAString /\ tags[i] <= MaxTagLength

CreateQuestion(actor, titleLength, descriptionLength, tags) ==
    /\ inflight = {}
    /\ IF ~QuestionValid(titleLength, descriptionLength, tags)
       THEN /\ last' = Response("create_question", 400, "Validation failed")
            /\ UNCHANGED questions
       ELSE /\ QuestionIds \ DOMAIN questions # {}
            /\ LET id == CHOOSE new \in QuestionIds \ DOMAIN questions : TRUE
               IN  \* new Question({title, description, author, tags}); save()
                   /\ questions' = [q \in DOMAIN questions \cup {id} |->
                                      IF q = id THEN NewQuestion(actor) ELSE questions[q]]
                   /\ last' = [Response("create_question", 201,
                                        "Question created successfully")
                                  EXCEPT !.question = id]
    /\ UNCHANGED <<answers, notifications, clock, inflight, users>>

(* Two users who ask, answer and vote with valid and invalid fields.       *)

Clients == {"u1", "u2"}
AnswerTargets == {"q1", MissingQuestion, MalformedId}   \* the questionId sent

InitValidate ==
    /\ questions = [id \in {"q1"} |-> NewQuestion("u1")]
    /\ answers = <<>>
    /\ notifications = <<>>
    /\ clock = 0
    /\ last = NoRequest
    /\ inflight = {}
    /\ users = Usernames

NextValidate ==
    \/ \E actor \in Clients, titleLength \in TitleLengths,
          descriptionLength \in DescriptionLengths, tags \in TagLists :
         CreateQuestion(actor, titleLength, descriptionLength, tags)
    \/ \E actor \in Clients, questionId \in AnswerTargets,
          contentLength \in ContentLengths :
         CreateAnswer(actor, questionId, contentLength)
    \/ \E actor \in Clients, id \in QuestionRefs, voteType \in VoteInputs :
         VoteQuestion(actor, id, voteType)
    \/ \E actor \in Clients, id \in AnswerRefs, voteType \in VoteInputs :
         VoteAnswer(actor, id, voteType)

SpecValidate == InitValidate /\ [][NextValidate]_vars

Store == <<questions, answers, notifications>>

\* C20: a request that fails field validation -- a vote whose voteType is
\* neither upvote nor downvote; an answer with content under 10 characters
\* or a malformed questionId; a question with a title outside 10-200
\* characters, a description under 20, a tag list outside 1-5 entries or a
\* tag over 30 characters -- is answered 400, whatever it targets (also a
\* missing or inactive item), and no record is created or changed: a step
\* that is not such a 400 without change is the step of no invalid request.
C20_InvalidFieldsRejected ==
    [][~(last'.status = 400 /\ last'.message = "Validation failed" /\ UNCHANGED Store)
        => \A actor \in Clients :
            /\ last'.op = "vote_question"
                 => \A id \in QuestionRefs, voteType \in VoteInputs \ VoteTypes :
                        ~VoteQuestion(actor, id, voteType)
            /\ last'.op = "vote_answer"
                 => \A id \in AnswerRefs, voteType \in VoteInputs \ VoteTypes :
                        ~VoteAnswer(actor, id, voteType)
            /\ last'.op = "create_answer"
                 => \A questionId \in AnswerTargets, contentLength \in ContentLengths :
                        (contentLength < 10 \/ questionId = MalformedId)
                           => ~CreateAnswer(actor, questionId, contentLength)
            /\ last'.op = "create_question"
                 => \A titleLength \in TitleLengths,
                       descriptionLength \in DescriptionLengths, tags \in TagLists :
                        (\/ titleLength < 10 \/ titleLength > 200
                         \/ descriptionLength < 20
                         \/ Len(tags) < 1 \/ Len(tags) > 5
                         \/ \E i \in 1..Len(tags) : tags[i] > 30)
                           => ~CreateQuestion(actor, titleLength, descriptionLength, tags)]_vars

\* A question with invalid fields was refused while two questions exist,
\* one of them voted on, and an answer has been created and voted on.
C20_Witness ==
    /\ last.op = "create_question" /\ last.status = 400
    /\ DOMAIN questions = QuestionIds
    /\ \E id \in DOMAIN questions : questions[id].votes.downvotes # <<>>
    /\ \E id \in DOMAIN answers : answers[id].votes.upvotes # <<>>
    /\ notifications # <<>>

-----------------------------------------------------------------------------
(* GET /api/questions: the listing with its tag filter and its pagination. *)

\* The questions of the listing, in creation order (createdAt).
ListedIds == <<"q1", "q2", "q3">>

\* The tag lists a stored question can have: the schema lower-cases and
\* trims every tag, and POST / requires at least one.
StoredTags == {<<"js">>, <<"db">>, <<"js", "db">>, <<"go">>}

\* The values of req.query.tags: absent, empty, and comma-separated lists.
TagQueries == {Null, "", "js", "js, db", "JS", "go,", "rust"}
Sorts == {"newest", "oldest"}         \* req.query.sort
Pages == {0, 1, 2}                    \* req.query.page (0 is not allowed)
Limits == {1, 10}                     \* req.query.limit

\* String.prototype.split(',') on the values of TagQueries
Split(tagsParam) ==
    CASE tagsParam = "js" -> <<"js">>
      [] tagsParam = "js, db" -> <<"js", " db">>
      [] tagsParam = "JS" -> <<"JS">>
      [] tagsParam = "go," -> <<"go", "">>
      [] tagsParam = "rust" -> <<"rust">>

\* String.prototype.trim() on the pieces of Split
Trim(tag) == IF tag = " db" THEN "db" ELSE tag

\* req.query.tags ? req.query.tags.split(',').map(tag => tag.trim()) : []
ParseTags(tagsParam) ==
    IF tagsParam = Null \/ tagsParam = ""
    THEN <<>>
    ELSE [i \in 1..Len(Split(tagsParam)) |-> Trim(Split(tagsParam)[i])]

\* A filter that asks for all of the requested tags ($all).
MatchesAllOf(question, tags) ==
    /\ question.isActive
    /\ Len(tags) > 0 => Elems(tags) \subseteq Elems(question.tags)

\* query = { isActive: true }; if (tags.length > 0) query.tags = { $in: tags }
Matches(question, tags) ==
    /\ question.isActive
    /\ Len(tags) > 0 => Elems(tags) \cap Elems(question.tags) # {}

\* Array.prototype.reverse
Reverse(arr) == [i \in 1..Len(arr) |-> arr[Len(arr) + 1 - i]]

\* Question.find(query).sort(sortObj): createdAt ascending or descending
Find(tags, sort) ==
    LET IsFound(id) == id \in DOMAIN questions /\ Matches(questions[id], tags)
        oldestFirst == SelectSeq(ListedIds, IsFound)
    IN  IF sort = "oldest" THEN oldestFirst ELSE Reverse(oldestFirst)

\* Question.countDocuments(query)
CountDocuments(tags) ==
    Cardinality({id \in DOMAIN questions : Matches(questions[id], tags)})

\* .skip(skip).limit(limit)
SkipLimit(arr, skip, limit) ==
    SubSeq(arr, skip + 1, IF skip + limit < Len(arr) THEN skip + limit ELSE Len(arr))

\* res.json({questions, pagination: {total, ...}}); arg keeps req.query.tags
ListResponse(tagsParam, found, total) ==
    [Response("list_questions", 200, Null)
        EXCEPT !.arg = tagsParam,
               !.body = [NoBody EXCEPT !.questions = found, !.total = total]]

ListQuestions(tagsParam, sort, page, limit) ==
    /\ inflight = {}
    /\ IF page < 1
       THEN last' = Response("list_questions", 400, "Validation failed")
       ELSE LET skip == (page - 1) * limit
                tags == ParseTags(tagsParam)
            IN  last' = ListResponse(tagsParam,
                                     SkipLimit(Find(tags, sort), skip, limit),
                                     CountDocuments(tags))
    /\ UNCHANGED <<questions, answers, notifications, clock, inflight, users>>

(* Listings of every store of three questions, active or soft-deleted,     *)
(* with any of the tag lists.                                              *)

InitList ==
    /\ questions \in [Elems(ListedIds) ->
                        {[NewQuestion("u1") EXCEPT !.tags = tags, !.isActive = active] :
                            tags \in StoredTags, active \in BOOLEAN}]
    /\ answers = <<>>
    /\ notifications = <<>>
    /\ clock = 0
    /\ last = NoRequest
    /\ inflight = {}
    /\ users = Usernames

NextList ==
    \E tagsParam \in TagQueries, sort \in Sorts, page \in Pages, limit \in Limits :
        ListQuestions(tagsParam, sort, page, limit)

SpecList == InitList /\ [][NextList]_vars

\* C21: a listing returns a question only if it is active and, when a
\* non-empty tag filter is given, has at least one of the requested tags;
\* without a tag filter every active question is eligible; the reported
\* total is the number of eligible questions, and a first page that is
\* long enough returns each of them once.
C21_ListReturnsEligible ==
    [][\A tagsParam \in TagQueries, sort \in Sorts, page \in Pages \ {0}, limit \in Limits :
        (/\ last'.op = "list_questions" /\ last'.arg = tagsParam
         /\ ListQuestions(tagsParam, sort, page, limit))
          => LET requested == Elems(ParseTags(tagsParam))
                 eligible ==
                    {id \in DOMAIN questions :
                        /\ questions[id].isActive
                        /\ \/ requested = {}
                           \/ \E tag \in requested : tag \in Elems(questions[id].tags)}
                 found == last'.body.questions
             IN  /\ last'.status = 200
                 /\ \A i \in 1..Len(found) : found[i] \in eligible
                 /\ NoDuplicates(found)
                 /\ last'.body.total = Cardinality(eligible)
                 /\ (page = 1 /\ limit >= Cardinality(eligible))
                       => Elems(found) = eligible
                 /\ (tagsParam = Null \/ tagsParam = "")
                       => eligible = {id \in DOMAIN questions : questions[id].isActive}]_vars

\* A listing for two tags returned and counted one question, which has
\* only one of them, while a soft-deleted question with a requested tag
\* and an active question with no requested tag exist.
C21_Witness ==
    /\ last.op = "list_questions" /\ last.status = 200
    /\ last.arg = "js, db"
    /\ last.body.total = 1 /\ Len(last.body.questions) = 1
    /\ \E i \in 1..Len(last.body.questions) :
         questions[last.body.questions[i]].tags = <<"db">>
    /\ \E id \in DOMAIN questions :
         ~questions[id].isActive /\ questions[id].tags = <<"js">>
    /\ \E id \in DOMAIN questions :
         questions[id].isActive /\ questions[id].tags = <<"go">>

-----------------------------------------------------------------------------
(* PUT /api/notifications/:id/read, PUT /api/notifications/mark-all-read   *)
(* and DELETE /api/notifications/:id.                                      *)

\* The place a deleted notification leaves in the collection: its _id is
\* not used again and no query finds it.
NoNotification == NewNotification(Null, Null, "deleted", Null, NoAnswer)

MissingNotification == 0              \* an id no notification has
NotificationRefs == 0..MaxNotifications

\* A lookup that does not ask for the recipient.
FindOwnOfAnyone(actor, id) ==
    id \in DOMAIN notifications /\ notifications[id] # NoNotification

\* Notification.findOne({_id: req.params.id, recipient: req.user._id})
FindOwn(actor, id) ==
    id \in DOMAIN notifications /\ notifications[id].recipient = actor

\* An update filter that takes the read notifications too.
UnreadOfOrRead(actor) ==
    {id \in DOMAIN notifications : notifications[id].recipient = actor}

\* The filter {recipient: req.user._id, isRead: false}
UnreadOf(actor) ==
    {id \in DOMAIN notifications :
        notifications[id].recipient = actor /\ ~notifications[id].isRead}

\* GET /unread-count: Notification.countDocuments({recipient, isRead: false})
CountUnread(actor) ==
    Cardinality({id \in DOMAIN notifications :
                    notifications[id].recipient = actor /\ notifications[id].isRead = FALSE})

\* notificationSchema.methods.markAsRead, with now = new Date()
MarkAsRead(notification, now) ==
    [notification EXCEPT !.isRead = TRUE, !.readAt = now]

\* res.json({message, notification: {id, isRead, readAt}})
MarkReadResponse(id, notification) ==
    [Response("mark_read", 200, "Notification marked as read")
        EXCEPT !.body = [NoBody EXCEPT !.notification = id,
                                       !.isRead = notification.isRead,
                                       !.readAt = notification.readAt]]

MarkRead(actor, id) ==
    /\ inflight = {}
    /\ IF ~FindOwn(actor, id)
       THEN /\ last' = Response("mark_read", 404, "Notification not found")
            /\ UNCHANGED <<notifications, clock>>
       ELSE IF ~notifications[id].isRead
       THEN /\ clock < MaxClock
            /\ clock' = clock + 1
            /\ notifications' =
                 [notifications EXCEPT ![id] = MarkAsRead(@, clock + 1)]
            /\ last' = MarkReadResponse(id, MarkAsRead(notifications[id], clock + 1))
       ELSE /\ last' = MarkReadResponse(id, notifications[id])
            /\ UNCHANGED <<notifications, clock>>
    /\ UNCHANGED <<questions, answers, inflight, users>>

\* Notification.updateMany({recipient, isRead: false}, {isRead: true, readAt: new Date()})
MarkAllRead(actor) ==
    /\ inflight = {}
    /\ clock < MaxClock
    /\ clock' = clock + 1
    /\ notifications' =
         [id \in DOMAIN notifications |->
            IF id \in UnreadOf(actor)
            THEN [notifications[id] EXCEPT !.isRead = TRUE, !.readAt = clock + 1]
            ELSE notifications[id]]
    /\ last' = [Response("mark_all_read", 200, "All notifications marked as read")
                   EXCEPT !.actor = actor,
                          !.body = [NoBody EXCEPT !.modifiedCount =
                                                     Cardinality(UnreadOf(actor))]]
    /\ UNCHANGED <<questions, answers, inflight, users>>

\* Notification.findOneAndDelete({_id: req.params.id, recipient: req.user._id})
DeleteNotification(actor, id) ==
    /\ inflight = {}
    /\ IF ~FindOwn(actor, id)
       THEN /\ last' = Response("delete_notification", 404, "Notification not found")
            /\ UNCHANGED notifications
       ELSE /\ notifications' = [notifications EXCEPT ![id] = NoNotification]
            /\ last' = Response("delete_notification", 200,
                                "Notification deleted successfully")
    /\ UNCHANGED <<questions, answers, clock, inflight, users>>

(* Answers that notify the two question authors, and the three users       *)
(* reading and deleting notifications.                                     *)

NextNotify ==
    \/ \E actor \in Answerers, questionId \in QuestionIds :
         CreateAnswer(actor, questionId, MinAnswerLength)
    \/ \E actor \in Users, id \in NotificationRefs : MarkRead(actor, id)
    \/ \E actor \in Users : MarkAllRead(actor)
    \/ \E actor \in Users, id \in NotificationRefs : DeleteNotification(actor, id)

SpecNotify == Init /\ [][NextNotify]_vars

\* C22: only its recipient can mark a notification read or delete it: the
\* same request by any other user is answered 404 and leaves the
\* notifications unchanged, the recipient's is answered 200; and
\* mark-all-read changes only notifications whose recipient is the actor.
C22_OnlyRecipientActs ==
    [][/\ \A actor \in Users, id \in DOMAIN notifications :
            /\ (last'.op = "mark_read" /\ MarkRead(actor, id))
                  => IF notifications[id].recipient = actor
                     THEN last'.status = 200
                     ELSE last'.status = 404 /\ notifications' = notifications
            /\ (last'.op = "delete_notification" /\ DeleteNotification(actor, id))
                  => IF notifications[id].recipient = actor
                     THEN last'.status = 200
                     ELSE last'.status = 404 /\ notifications' = notifications
       /\ \A actor \in Users :
            (last'.op = "mark_all_read" /\ MarkAllRead(actor))
               => \A id \in DOMAIN notifications :
                     notifications[id].recipient # actor
                        => notifications'[id] = notifications[id]]_vars

\* A user was refused the unread notification of another user, after a
\* mark-all-read that left that notification unread.
C22_Witness ==
    /\ last.op \in {"mark_read", "delete_notification"} /\ last.status = 404
    /\ clock >= 1
    /\ \E id \in DOMAIN notifications :
         /\ notifications[id].recipient \in Users
         /\ ~notifications[id].isRead
    /\ \E id \in DOMAIN notifications :
         notifications[id].isRead /\ notifications[id].readAt # NoDate

\* C30: a notification has isRead = true exactly when readAt is set; a
\* mark-read of a read notification by its recipient succeeds without
\* changing it, a mark-all-read changes no read notification, and after a
\* mark-all-read the actor has no unread notification.
C30_ReadHasTimestamp ==
    /\ [](\A id \in DOMAIN notifications :
            notifications[id].isRead <=> notifications[id].readAt # NoDate)
    /\ [][/\ \A actor \in Users, id \in DOMAIN notifications :
               (/\ notifications[id].recipient = actor /\ notifications[id].isRead
                /\ last'.op = "mark_read" /\ MarkRead(actor, id))
                  => /\ last'.status = 200
                     /\ last'.body.readAt = notifications[id].readAt
                     /\ notifications' = notifications
          /\ \A actor \in Users :
               (last'.op = "mark_all_read" /\ MarkAllRead(actor))
                  => /\ last'.status = 200
                     /\ \A id \in DOMAIN notifications :
                           notifications[id].isRead
                              => notifications'[id] = notifications[id]
                     /\ \A id \in DOMAIN notifications' :
                           notifications'[id].recipient = actor
                              => notifications'[id].isRead
                     /\ CountUnread(actor)' = 0]_vars

\* A mark-all-read marked one notification of a user who had another one
\* read earlier; both are read, with different timestamps.
C30_Witness ==
    /\ last.op = "mark_all_read" /\ last.status = 200
    /\ last.body.modifiedCount = 1
    /\ \E id, other \in DOMAIN notifications :
         /\ notifications[id].recipient = last.actor
         /\ notifications[other].recipient = last.actor
         /\ notifications[id].isRead /\ notifications[other].isRead
         /\ notifications[id].readAt # notifications[other].readAt
         /\ notifications[id].readAt # NoDate /\ notifications[other].readAt # NoDate

-----------------------------------------------------------------------------
(* The persists of one accept request that replaces an accepted answer     *)
(* (SpecSteps).                                                            *)

\* Flag and reference of a question agree: the answer the reference names
\* is accepted and no other answer of the question is.
Agree(questionId) ==
    LET accepted == questions[questionId].acceptedAnswer
    IN  /\ accepted # NoAnswer => answers[accepted].isAccepted
        /\ \A id \in DOMAIN answers :
              (answers[id].question = questionId /\ answers[id].isAccepted)
                 => id = accepted

\* C25: within one accept request that replaces the accepted answer A by B
\* the persists come in the order clear A, set B, update the reference; at
\* every point between them (so also after a crash there) A and B are never
\* both accepted, and the only inconsistency of the question is that its
\* reference still names A while A is no longer accepted.
C25_ReplaceClearsBeforeSet ==
    \A req \in inflight :
        LET A == req.question.acceptedAnswer
            B == req.id
            reference == questions[req.answer.question].acceptedAnswer
        IN  (A # NoAnswer /\ A # B)
               => /\ ~(answers[A].isAccepted /\ answers[B].isAccepted)
                  /\ req.step = "unaccept"
                        => ~answers[B].isAccepted /\ reference = A
                  /\ req.step = "accept"
                        => /\ ~answers[A].isAccepted
                           /\ ~answers[B].isAccepted /\ reference = A
                  /\ req.step = "question"
                        => /\ ~answers[A].isAccepted
                           /\ answers[B].isAccepted /\ reference = A
                  /\ req.step = "notify"
                        => /\ ~answers[A].isAccepted
                           /\ answers[B].isAccepted /\ reference = B
                  /\ \/ Agree(req.answer.question)
                     \/ reference = A /\ ~answers[A].isAccepted

\* The request has cleared A and set B and has not yet updated the
\* reference, which names A; A had been accepted by an earlier request.
C25_Witness ==
    \E req \in inflight :
        /\ req.step = "question"
        /\ req.question.acceptedAnswer \notin {NoAnswer, req.id}
        /\ answers[req.id].isAccepted
        /\ ~answers[req.question.acceptedAnswer].isAccepted
        /\ questions[req.answer.question].acceptedAnswer = req.question.acceptedAnswer
        /\ ~Agree(req.answer.question)
        /\ clock >= 2

-----------------------------------------------------------------------------
(* The answers list of a question under creations and soft deletes         *)
(* (SpecCreate).                                                           *)

\* The ids of the active answers of a question, in creation order.
ActiveAnswersOf(questionId) ==
    SelectSeq([id \in 1..Len(answers) |-> id],
              LAMBDA id : answers[id].question = questionId /\ answers[id].isActive)

\* C27: under answer creations and soft deletes handled one at a time, the
\* answers list of every question holds exactly the ids of the active
\* answers of that question, each once, in creation order; and deleting an
\* answer that is already deleted succeeds again and changes nothing.
C27_AnswersListIsActiveAnswers ==
    /\ [](\A questionId \in DOMAIN questions :
            questions[questionId].answers = ActiveAnswersOf(questionId))
    /\ [][\A actor \in Users, id \in DOMAIN answers :
            (/\ ~answers[id].isActive
             /\ actor = answers[id].author \/ actor \in Admins
             /\ last'.op = "delete_answer" /\ DeleteAnswer(actor, id))
               => /\ last'.status = 200
                  /\ UNCHANGED Store]_vars

\* After a delete, a question that got two answers lists only the second:
\* the first is soft-deleted.
C27_Witness ==
    /\ last.op = "delete_answer" /\ last.status = 200
    /\ \E questionId \in DOMAIN questions, id, other \in DOMAIN answers :
         /\ answers[id].question = questionId /\ answers[other].question = questionId
         /\ id < other
         /\ ~answers[id].isActive /\ answers[other].isActive
         /\ last.answer = id
         /\ questions[questionId].answers = <<other>>

-----------------------------------------------------------------------------
(* Soft delete of the accepted answer (SpecDelete).                        *)

\* C29: a soft delete of the answer that is accepted leaves its isAccepted,
\* its acceptedAt and the question's acceptedAnswer as they were, so the
\* reference then names an inactive answer whose flag is still set; an
\* accept of another answer of the question that follows clears the
\* deleted answer's flag and timestamp.
C29_DeleteKeepsAcceptance ==
    [][/\ \A actor \in Users, id \in DOMAIN answers :
            (/\ answers[id].isAccepted
             /\ questions[ParentOf(id)].acceptedAnswer = id
             /\ last'.op = "delete_answer" /\ DeleteAnswer(actor, id)
             /\ last'.status = 200)
               => /\ ~answers'[id].isActive
                  /\ answers'[id].isAccepted
                  /\ answers'[id].acceptedAt = answers[id].acceptedAt
                  /\ questions'[ParentOf(id)].acceptedAnswer = id
       /\ \A actor \in Users, id \in DOMAIN answers :
            LET deleted == questions[ParentOf(id)].acceptedAnswer
            IN  (/\ deleted \notin {NoAnswer, id}
                 /\ ~answers[deleted].isActive /\ answers[deleted].isAccepted
                 /\ last'.op = "accept" /\ AcceptAnswer(actor, id)
                 /\ last'.status = 200)
                   => /\ ~answers'[deleted].isAccepted
                      /\ answers'[deleted].acceptedAt = NoDate
                      /\ answers'[id].isAccepted
                      /\ questions'[ParentOf(id)].acceptedAnswer = id]_vars

\* The second accept of the behaviour accepted answer 2 after answer 1, for
\* whose acceptance its author was notified, had been soft-deleted: answer 1
\* is inactive and no longer accepted.
C29_Witness ==
    /\ last.op = "accept" /\ last.status = 200 /\ last.answer = 2
    /\ clock = 2 /\ last.body.acceptedAt = 2
    /\ ~answers[1].isActive /\ ~answers[1].isAccepted
    /\ answers[2].isAccepted
    /\ questions["q1"].acceptedAnswer = 2
    /\ \E n \in DOMAIN notifications :
         /\ notifications[n].type = "accepted_answer"
         /\ notifications[n].relatedAnswer = 1

-----------------------------------------------------------------------------
(* PUT /api/users/profile: the username of a user.                         *)

NoUsername == Null                    \* req.body.username is undefined
TooShort == "al"                      \* under 3 characters
BadCharacter == "da-ve"               \* not matched by /^[a-zA-Z0-9_]+$/
UsernameInputs == {NoUsername, "alice", "bob", "dave", TooShort, BadCharacter}

\* validationResult(req).isEmpty() for the chain of body('username')
UsernameValid(username) ==
    username = NoUsername \/ username \notin {TooShort, BadCharacter}

\* The User collection keeps usernames unique: it accepts the write of a
\* username to a user only if no other user holds it.
AcceptsUsername(store, id, username) ==
    \A other \in DOMAIN store : store[other] = username => other = id

ProfileMessage(status) ==
    CASE status = 400 -> "Username is already taken"
      [] status = 500 -> "Server error"
      [] OTHER -> "Profile updated successfully"

\* A profile update that does not look for the username.
ProfileCheckNoLookup(actor, username) ==
    IF ~UsernameValid(username) THEN 422 ELSE 200

\* The status the checks before the write answer with; 200 = pass, 422
\* stands for the 400 of the field validation.
ProfileCheck(actor, username) ==
    IF ~UsernameValid(username) THEN 422
    ELSE IF username # NoUsername /\ username # users[actor]
            \* const existingUser = await User.findOne({ username })
            /\ \E id \in DOMAIN users : users[id] = username
    THEN 400
    ELSE 200

\* The checks of the request, up to the write.
ProfileBegin(actor, username) ==
    /\ LET status == ProfileCheck(actor, username)
       IN  IF status = 422
           THEN /\ last' = Response("update_profile", 400, "Validation failed")
                /\ UNCHANGED inflight
           ELSE IF status = 400
           THEN /\ last' = Response("update_profile", 400, ProfileMessage(400))
                /\ UNCHANGED inflight
           ELSE /\ Cardinality(inflight) < MaxRequests
                /\ inflight' = inflight \cup
                     {[op |-> "update_profile", actor |-> actor, step |-> "write",
                       \* updateFields.username, set when it differs from req.user.username
                       username |-> IF username = users[actor]
                                    THEN NoUsername ELSE username]}
                /\ UNCHANGED last
    /\ UNCHANGED <<questions, answers, notifications, clock, users>>

\* await User.findByIdAndUpdate(req.user._id, updateFields, ...); a write the
\* collection rejects is caught by the handler's catch block.
ProfileWriteStep(req) ==
    /\ req \in inflight /\ req.step = "write"
    /\ inflight' = inflight \ {req}
    /\ IF req.username = NoUsername
       THEN /\ last' = Response("update_profile", 200, ProfileMessage(200))
            /\ UNCHANGED users
       ELSE IF AcceptsUsername(users, req.actor, req.username)
       THEN /\ users' = [users EXCEPT ![req.actor] = req.username]
            /\ last' = [Response("update_profile", 200, ProfileMessage(200))
                           EXCEPT !.actor = req.actor, !.arg = req.username]
       ELSE /\ last' = [Response("update_profile", 500, ProfileMessage(500))
                           EXCEPT !.actor = req.actor, !.arg = req.username]
            /\ UNCHANGED users
    /\ UNCHANGED <<questions, answers, notifications, clock>>

(* Profile updates of the three users whose checks and writes interleave.  *)

NextProfile ==
    \/ \E actor \in Users, username \in UsernameInputs : ProfileBegin(actor, username)
    \/ \E req \in inflight : ProfileWriteStep(req)

SpecProfile == Init /\ [][NextProfile]_vars

-----------------------------------------------------------------------------
(* Accept requests for the two answers of a question whose persists        *)
(* interleave.                                                             *)

NextAccepts ==
    \/ \E actor \in {"u1", "u2"}, id \in AnswerRefs : AcceptBegin(actor, id)
    \/ \E req \in inflight : AcceptUnacceptStep(req)
    \/ \E req \in inflight : AcceptNewStep(req)
    \/ \E req \in inflight : AcceptQuestionStep(req)
    \/ \E req \in inflight : AcceptNotifyStep(req)

SpecAccepts == InitDelete /\ [][NextAccepts]_vars

\* C26: when no accept request is in flight (so after interleaved accepts
\* of two answers of a question by its author have completed), at most one
\* answer of the question is accepted, and it is the answer the question's
\* acceptedAnswer names.
C26_InterleavedAcceptsAgree ==
    inflight = {}
       => \A id \in DOMAIN answers :
             answers[id].isAccepted
                => /\ questions[ParentOf(id)].acceptedAnswer = id
                   /\ \A other \in DOMAIN answers :
                         (ParentOf(other) = ParentOf(id) /\ answers[other].isAccepted)
                            => other = id

-----------------------------------------------------------------------------
(* Votes and answer creations with their fetch and their persists as       *)
(* separate steps.                                                         *)

\* The array was only pushed onto since it was fetched.
Pushed(fetched, memory) ==
    /\ Len(memory) > Len(fetched)
    /\ SubSeq(memory, 1, Len(fetched)) = fetched

\* What save() leaves in an array path: nothing new if the path was not
\* modified, the pushed entries on top of the stored array after a push,
\* the in-memory array after a splice.
SaveArray(stored, fetched, memory) ==
    IF memory = fetched THEN stored
    ELSE IF Pushed(fetched, memory)
    THEN stored \o SubSeq(memory, Len(fetched) + 1, Len(memory))
    ELSE memory

\* The save asks for the fetched version: an array was spliced.
NeedsVersion(fetched, memory) ==
    \/ memory.upvotes # fetched.upvotes /\ ~Pushed(fetched.upvotes, memory.upvotes)
    \/ memory.downvotes # fetched.downvotes /\ ~Pushed(fetched.downvotes, memory.downvotes)

\* A save has raised the version of a question: the votes in flight that
\* fetched the question before hold an old version.
MarkStale(requests, questionId) ==
    {IF req.step = "vote" /\ req.id = questionId
     THEN [req EXCEPT !.stale = TRUE] ELSE req : req \in requests}

\* Some request is in flight at one of the steps.
Busy(steps) == \E req \in inflight : req.step \in steps

\* Question.findById(req.params.id): the ledger the vote has read; n tells
\* equal requests apart
VoteFetched(actor, id, voteType) ==
    [actor |-> actor, id |-> id, arg |-> voteType, votes |-> questions[id].votes,
     stale |-> FALSE, step |-> "vote",
     n |-> CHOOSE n \in 1..(Cardinality(inflight) + 1) :
              \A req \in inflight : req.step = "vote" => req.n # n]

VoteQuestionBegin(actor, id, voteType) ==
    /\ LET found == QuestionExists(id)
           check == VoteCheck("Question", found,
                              IF found THEN questions[id] ELSE Null, actor, voteType)
       IN  IF check.status # 200
           THEN /\ last' = Response("vote_question", check.status, check.message)
                /\ UNCHANGED inflight
           ELSE /\ Cardinality(inflight) < MaxRequests
                /\ inflight' = inflight \cup {VoteFetched(actor, id, voteType)}
                /\ UNCHANGED last
    /\ UNCHANGED <<questions, answers, notifications, clock, users>>

\* The toggle on the fetched ledger, await question.save() and the
\* response; a save that throws is caught by the handler's catch block.
VoteQuestionSaveStep(req) ==
    /\ req \in inflight /\ req.step = "vote"
    /\ LET memory == ApplyVote(req.votes, req.actor, req.arg)
       IN  IF NeedsVersion(req.votes, memory) /\ req.stale
           THEN /\ last' = [Response("vote_question", 500, "Server error")
                               EXCEPT !.actor = req.actor, !.question = req.id,
                                      !.arg = req.arg]
                /\ inflight' = inflight \ {req}
                /\ UNCHANGED questions
           ELSE /\ questions' =
                     [questions EXCEPT ![req.id].votes =
                        [upvotes |-> SaveArray(@.upvotes, req.votes.upvotes,
                                               memory.upvotes),
                         downvotes |-> SaveArray(@.downvotes, req.votes.downvotes,
                                                 memory.downvotes)]]
                /\ inflight' = MarkStale(inflight \ {req}, req.id)
                /\ last' = [VoteResponse("vote_question", req.actor, req.arg,
                                         [votes |-> req.votes], [votes |-> memory])
                               EXCEPT !.question = req.id]
    /\ UNCHANGED <<answers, notifications, clock, users>>

\* Question.findById(questionId): the question the creation has read
Posted(actor, questionId) ==
    [actor |-> actor, id |-> questionId, question |-> questions[questionId],
     answer |-> NoAnswer, step |-> "create_answer"]

CreateBegin(actor, questionId, contentLength) ==
    /\ LET status == CreateCheck(questionId, contentLength)
       IN  IF status # 201
           THEN /\ last' = Response("create_answer", status, CreateMessage(status))
                /\ UNCHANGED inflight
           ELSE /\ CreateFits(actor, questionId)
                /\ Cardinality(inflight) < MaxRequests
                /\ inflight' = inflight \cup {Posted(actor, questionId)}
                /\ UNCHANGED last
    /\ UNCHANGED <<questions, answers, notifications, clock, users>>

\* await answer.save()
CreateAnswerStep(req) ==
    /\ req \in inflight /\ req.step = "create_answer"
    /\ answers' = Push(answers, NewAnswer(req.actor, req.id))
    /\ inflight' = (inflight \ {req})
                     \cup {[req EXCEPT !.answer = Len(answers) + 1,
                                       !.step = "create_list"]}
    /\ UNCHANGED <<questions, notifications, clock, last, users>>

\* question.answers.push(answer._id); await question.save()
CreateListStep(req) ==
    /\ req \in inflight /\ req.step = "create_list"
    /\ questions' =
         [questions EXCEPT ![req.id].answers =
            SaveArray(@, req.question.answers, Push(req.question.answers, req.answer))]
    /\ inflight' = MarkStale((inflight \ {req})
                                \cup {[req EXCEPT !.step = "create_notify"]}, req.id)
    /\ UNCHANGED <<answers, notifications, clock, last, users>>

\* await notification.save(); res.status(201).json(...)
CreateNotifyStep(req) ==
    /\ req \in inflight /\ req.step = "create_notify"
    /\ notifications' =
         CreateNotifications(notifications, req.question, req.actor, req.id, req.answer)
    /\ inflight' = inflight \ {req}
    /\ last' = [Response("create_answer", 201, CreateMessage(201))
                   EXCEPT !.body = [NoBody EXCEPT !.answer = req.answer]]
    /\ UNCHANGED <<questions, answers, clock, users>>

(* Votes of the author and of another user on one question, their fetches  *)
(* and saves interleaved.                                                  *)

NextVoteSteps ==
    \/ \E actor \in Clients, id \in {"q1", MissingQuestion}, voteType \in VoteInputs :
         VoteQuestionBegin(actor, id, voteType)
    \/ \E req \in inflight : VoteQuestionSaveStep(req)

SpecVoteSteps == InitViewSteps /\ [][NextVoteSteps]_vars

\* C24: there is an interleaving of two vote requests by one user on one
\* item that ends in the result of neither serial order.  Whenever a vote of
\* a user who had no vote is saved right after the response to an equal
\* vote of that user that also found no vote (both were fetched before
\* either was saved), it is recorded and the user ends in the set voted
\* for, whereas the two votes one after the other end in no vote.
C24_ConcurrentVotesNotSerial ==
    [][\A req \in inflight :
        (/\ req.step = "vote"
         /\ last.op = "vote_question" /\ last.status = 200
         /\ last.actor = req.actor /\ last.question = req.id /\ last.arg = req.arg
         /\ last.prior = "none"
         /\ Membership(req.votes, req.actor) = "none"
         /\ VoteQuestionSaveStep(req))
           => /\ last'.status = 200
              /\ req.actor \in Elems(IF req.arg = "upvote"
                                      THEN questions'[req.id].votes.upvotes
                                      ELSE questions'[req.id].votes.downvotes)
              /\ Membership(ApplyVote(ApplyVote(req.votes, req.actor, req.arg),
                                      req.actor, req.arg), req.actor) = "none"]_vars

\* Two upvotes of a user who had no vote were both answered as recorded,
\* the second from a ledger fetched before the first was saved: the user is
\* in upvotes (twice) and no vote is in flight.
C24_Witness ==
    /\ inflight = {}
    /\ last.op = "vote_question" /\ last.status = 200
    /\ last.arg = "upvote" /\ last.prior = "none"
    /\ last.body.upvotes = 1
    /\ Len(questions[last.question].votes.upvotes) = 2
    /\ Elems(questions[last.question].votes.upvotes) = {last.actor}
    /\ questions[last.question].votes.downvotes = <<>>

-----------------------------------------------------------------------------
(* Answer creations on one question interleaved with a read, a vote and an *)
(* accept on it; at most one request of each kind is in flight.            *)

NextInterleave ==
    \/ \E actor \in Clients :
         /\ ~Busy({"create_answer", "create_list", "create_notify"})
         /\ CreateBegin(actor, "q1", MinAnswerLength)
    \/ \E req \in inflight : CreateAnswerStep(req)
    \/ \E req \in inflight : CreateListStep(req)
    \/ \E req \in inflight : CreateNotifyStep(req)
    \/ ~Busy({"save"}) /\ GetBegin("u2", "q1")
    \/ \E req \in inflight : GetSaveStep(req)
    \/ \E voteType \in VoteTypes :
         ~Busy({"vote"}) /\ VoteQuestionBegin("u2", "q1", voteType)
    \/ \E req \in inflight : VoteQuestionSaveStep(req)
    \/ \E id \in AnswerRefs :
         /\ ~Busy({"unaccept", "accept", "question", "notify"})
         /\ AcceptBegin("u1", id)
    \/ \E req \in inflight : AcceptUnacceptStep(req)
    \/ \E req \in inflight : AcceptNewStep(req)
    \/ \E req \in inflight : AcceptQuestionStep(req)
    \/ \E req \in inflight : AcceptNotifyStep(req)

SpecInterleave == InitViewSteps /\ [][NextInterleave]_vars

\* C28: when an answer creation interleaves with a read, a vote or an accept
\* on the same question, each request's persist of the question leaves its
\* own effect and keeps the others': the creation adds the new id to the
\* answers list and keeps the stored views, votes and acceptedAnswer; the
\* read adds one view, the vote is recorded as a vote handled alone would
\* be, the accept sets the reference, and all three keep the answers list.
C28_CreationKeepsOtherEffects ==
    [][\A req \in inflight :
        /\ (req.step = "create_list" /\ CreateListStep(req))
              => questions' = [questions EXCEPT ![req.id].answers = Push(@, req.answer)]
        /\ (req.step = "save" /\ GetSaveStep(req))
              => questions' = [questions EXCEPT ![req.id].views = @ + 1]
        /\ (req.step = "vote" /\ VoteQuestionSaveStep(req))
              => /\ last'.status = 200
                 /\ questions' = [questions EXCEPT ![req.id].votes =
                                     ApplyVote(@, req.actor, req.arg)]
        /\ (req.step = "question" /\ AcceptQuestionStep(req))
              => questions' = [questions EXCEPT ![req.answer.question].acceptedAnswer =
                                                    req.id]]_vars

\* What does hold: the creation, the read and the accept persist their
\* effect and keep the others', and so does a vote unless it removes an
\* earlier vote of the voter and the creation's save of the question came
\* between its fetch and its save; that vote is answered 500 and is not
\* recorded.
CreationFailsStaleVote ==
    [][\A req \in inflight :
        /\ (req.step = "create_list" /\ CreateListStep(req))
              => questions' = [questions EXCEPT ![req.id].answers = Push(@, req.answer)]
        /\ (req.step = "save" /\ GetSaveStep(req))
              => questions' = [questions EXCEPT ![req.id].views = @ + 1]
        /\ (req.step = "vote" /\ VoteQuestionSaveStep(req))
              => IF req.stale /\ Membership(req.votes, req.actor) # "none"
                 THEN last'.status = 500 /\ questions' = questions
                 ELSE /\ last'.status = 200
                      /\ questions' = [questions EXCEPT ![req.id].votes =
                                          ApplyVote(@, req.actor, req.arg)]
        /\ (req.step = "question" /\ AcceptQuestionStep(req))
              => questions' = [questions EXCEPT ![req.answer.question].acceptedAnswer =
                                                    req.id]]_vars

====
